---- MODULE Spec2Model ----
(***************************************************************************)
(* A model of crypto-trading-backend/src/scripts/sentiment_analyzer.py:    *)
(* class CryptoSentimentAnalyzer, its tier functions, its text             *)
(* preprocessing, the per-symbol analysis and the batch analysis.          *)
(*                                                                         *)
(* Numbers.  Python floats are modelled as exact rationals <<n, d>> with   *)
(* d > 0 in lowest terms; binary rounding error is not modelled.           *)
(***************************************************************************)
EXTENDS Integers, Sequences, FiniteSets, TLC

VARIABLES pc, request, env, tweets, recent_tweets, sentiment_scores, ret, results, pending

vars == <<pc, request, env, tweets, recent_tweets, sentiment_scores, ret, results, pending>>

None == "None"

(***************************************************************************)
(* Rational arithmetic                                                     *)
(***************************************************************************)
Abs(x) == IF x < 0 THEN -x ELSE x

RECURSIVE GCD(_, _)
GCD(a, b) == IF b = 0 THEN a ELSE GCD(b, a % b)

Rat(n, d) ==
  LET g == GCD(Abs(n), Abs(d))
      s == IF d < 0 THEN -1 ELSE 1
  IN  <<(s * n) \div g, (s * d) \div g>>

RatMul(a, b) == Rat(a[1] * b[1], a[2] * b[2])

RatLess(a, b) == a[1] * b[2] < b[1] * a[2]

Zero == Rat(0, 1)

One == Rat(1, 1)

(***************************************************************************)
(* Class constants, lines 63-72                                            *)
(***************************************************************************)
BUY_THRESHOLD == Rat(6, 100)

SELL_THRESHOLD == Rat(4, 100)

NEUTRAL_ZONE == <<SELL_THRESHOLD, BUY_THRESHOLD>>

HIGH_VOLUME_THRESHOLD == 500

LOW_VOLUME_THRESHOLD == 100

HIGH_VOLUME_MULTIPLIER == Rat(15, 10)

LOW_VOLUME_MULTIPLIER == Rat(5, 10)

(***************************************************************************)
(* get_volume_multiplier, lines 394-403                                    *)
(***************************************************************************)
VolumeMultiplierInclusive(tweet_count) ==
  IF tweet_count >= HIGH_VOLUME_THRESHOLD THEN HIGH_VOLUME_MULTIPLIER
  ELSE IF tweet_count <= LOW_VOLUME_THRESHOLD THEN LOW_VOLUME_MULTIPLIER
  ELSE One

get_volume_multiplier(tweet_count) ==
  IF tweet_count > HIGH_VOLUME_THRESHOLD THEN HIGH_VOLUME_MULTIPLIER
  ELSE IF tweet_count < LOW_VOLUME_THRESHOLD THEN LOW_VOLUME_MULTIPLIER
  ELSE One

(***************************************************************************)
(* generate_trading_signal, lines 405-414                                  *)
(***************************************************************************)
TradingSignalInclusive(compound_score) ==
  IF ~RatLess(compound_score, BUY_THRESHOLD) THEN "BUY"
  ELSE IF ~RatLess(SELL_THRESHOLD, compound_score) THEN "SELL"
  ELSE "NEUTRAL"

generate_trading_signal(compound_score) ==
  IF RatLess(BUY_THRESHOLD, compound_score) THEN "BUY"
  ELSE IF RatLess(compound_score, SELL_THRESHOLD) THEN "SELL"
  ELSE "NEUTRAL"

(***************************************************************************)
(* calculate_engagement_weight, lines 274-293.  A tweet is a dict: a       *)
(* function whose domain is the set of keys it has.                        *)
(***************************************************************************)
Get(dict, key, default) == IF key \in DOMAIN dict THEN dict[key] ELSE default

EngagementScore(tweet) ==
  LET retweets == Get(tweet, "retweet_count", 0)
      likes == Get(tweet, "like_count", 0)
      replies == Get(tweet, "reply_count", 0)
  IN  (retweets * 3) + (likes * 1) + (replies * 2)

EngagementWeightShifted(tweet) ==
  LET engagement_score == EngagementScore(tweet)
  IN  IF engagement_score = 0 THEN One
      ELSE IF engagement_score <= 10 THEN Rat(8, 10)
      ELSE IF engagement_score <= 50 THEN Rat(12, 10)
      ELSE Rat(15, 10)

calculate_engagement_weight(tweet) ==
  LET engagement_score == EngagementScore(tweet)
  IN  IF engagement_score = 0 THEN One
      ELSE IF engagement_score < 10 THEN Rat(8, 10)
      ELSE IF engagement_score < 50 THEN Rat(12, 10)
      ELSE Rat(15, 10)

(***************************************************************************)
(* The tier functions applied to drawn arguments                           *)
(***************************************************************************)
ScoreSpan == 1000

MaxTweetCount == 600

MaxCount == 20

Scores == {Rat(x, 10000) : x \in (-ScoreSpan)..ScoreSpan}

CountKeys == {"retweet_count", "like_count", "reply_count"}

Engagements == UNION {[keys -> 0..MaxCount] : keys \in SUBSET CountKeys}

TierRequests ==
  {[fn |-> "generate_trading_signal", arg |-> x] : x \in Scores}
  \cup {[fn |-> "get_volume_multiplier", arg |-> n] : n \in 0..MaxTweetCount}
  \cup {[fn |-> "calculate_engagement_weight", arg |-> t] : t \in Engagements}

InitCommon ==
  /\ pc = "call"
  /\ tweets = None
  /\ recent_tweets = None
  /\ sentiment_scores = None
  /\ ret = None
  /\ results = None
  /\ pending = None

InitTiers ==
  /\ InitCommon
  /\ env = None
  /\ request \in TierRequests

Return(value) ==
  /\ ret' = value
  /\ pc' = "done"
  /\ UNCHANGED <<request, env, tweets, recent_tweets, sentiment_scores, results, pending>>

CallSignal ==
  /\ pc = "call"
  /\ request.fn = "generate_trading_signal"
  /\ Return(generate_trading_signal(request.arg))

CallVolume ==
  /\ pc = "call"
  /\ request.fn = "get_volume_multiplier"
  /\ Return(get_volume_multiplier(request.arg))

CallEngagement ==
  /\ pc = "call"
  /\ request.fn = "calculate_engagement_weight"
  /\ Return(calculate_engagement_weight(request.arg))

NextTiers == CallSignal \/ CallVolume \/ CallEngagement

SpecTiers == InitTiers /\ [][NextTiers]_vars

Returned(fn) == pc = "done" /\ request.fn = fn

(***************************************************************************)
(* C3: generate_trading_signal returns BUY exactly for scores above 0.06,  *)
(* SELL exactly for scores below 0.04 and NEUTRAL exactly for scores from  *)
(* 0.04 to 0.06, both ends included; so 0.04 and 0.06 are NEUTRAL, 0.0601  *)
(* is BUY, and 0.0399, 0 and every negative score are SELL.                *)
(***************************************************************************)
C3_SignalTiers ==
  Returned("generate_trading_signal") =>
    LET x == request.arg[1] * (10000 \div request.arg[2])
    IN  /\ ret \in {"BUY", "SELL", "NEUTRAL"}
        /\ (ret = "BUY") <=> (x > 600)
        /\ (ret = "SELL") <=> (x < 400)
        /\ (ret = "NEUTRAL") <=> (400 <= x /\ x <= 600)
        /\ x \in {400, 600} => ret = "NEUTRAL"
        /\ x = 601 => ret = "BUY"
        /\ (x = 399 \/ x <= 0) => ret = "SELL"

C3_Witness ==
  /\ Returned("generate_trading_signal")
  /\ request.arg = Rat(6, 100)
  /\ ret = "NEUTRAL"

(***************************************************************************)
(* C4: get_volume_multiplier returns 1.5 for n > 500, 0.5 for n < 100 and  *)
(* 1.0 for 100 <= n <= 500; 100 and 500 give 1.0, 99 gives 0.5 and 501     *)
(* gives 1.5.                                                              *)
(***************************************************************************)
C4_VolumeTiers ==
  Returned("get_volume_multiplier") =>
    LET n == request.arg
    IN  /\ n > 500 => ret = <<3, 2>>
        /\ n < 100 => ret = <<1, 2>>
        /\ (100 <= n /\ n <= 500) => ret = <<1, 1>>
        /\ n \in {100, 500} => ret = <<1, 1>>
        /\ n = 99 => ret = <<1, 2>>
        /\ n = 501 => ret = <<3, 2>>

C4_Witness ==
  /\ Returned("get_volume_multiplier")
  /\ request.arg = 500
  /\ ret = <<1, 1>>

(***************************************************************************)
(* C5: calculate_engagement_weight is the step function of                 *)
(* s = 3*retweets + likes + 2*replies (missing counts read as 0) giving    *)
(* 1.0 at s = 0, 0.8 for 0 < s < 10, 1.2 for 10 <= s < 50 and 1.5 for      *)
(* s >= 50, and the weight is always strictly positive.                    *)
(***************************************************************************)
CountOrZero(t, k) == IF k \in DOMAIN t THEN t[k] ELSE 0

C5_EngagementTiers ==
  Returned("calculate_engagement_weight") =>
    LET t == request.arg
        s == 3 * CountOrZero(t, "retweet_count") + CountOrZero(t, "like_count")
               + 2 * CountOrZero(t, "reply_count")
    IN  /\ s = 0 => ret = <<1, 1>>
        /\ (0 < s /\ s < 10) => ret = <<4, 5>>
        /\ (10 <= s /\ s < 50) => ret = <<6, 5>>
        /\ s >= 50 => ret = <<3, 2>>
        /\ s = 9 => ret = <<4, 5>>
        /\ s \in {10, 49} => ret = <<6, 5>>
        /\ s = 50 => ret = <<3, 2>>
        /\ ret[1] > 0 /\ ret[2] > 0

C5_Witness ==
  /\ Returned("calculate_engagement_weight")
  /\ DOMAIN request.arg = {"like_count", "reply_count"}
  /\ request.arg.like_count = 10
  /\ request.arg.reply_count = 20
  /\ ret = <<3, 2>>

(***************************************************************************)
(* preprocess_tweet, lines 121-138.  A text is a sequence of characters.   *)
(* Character classes of the regular expressions: \s is " ", \w is a        *)
(* letter, \S is anything but " ".  str.lower maps each letter of         *)
(* UpperCase to the letter of LowerCase at its place.                      *)
(***************************************************************************)
IsSpace(c) == c = " "

UpperCase == <<"B", "C", "D", "E", "G", "H", "O", "T", "W">>

LowerCase == <<"b", "c", "d", "e", "g", "h", "o", "t", "w">>

Letters ==
  {UpperCase[i] : i \in 1..Len(UpperCase)} \cup {LowerCase[i] : i \in 1..Len(LowerCase)}
  \cup {"a", "i", "m", "n", "p", "r", "s", "u"}

IsWord(c) == c \in Letters

LowerChar(c) ==
  IF \E i \in 1..Len(UpperCase) : UpperCase[i] = c
  THEN LowerCase[CHOOSE i \in 1..Len(UpperCase) : UpperCase[i] = c]
  ELSE c

Lower(text) == [i \in 1..Len(text) |-> LowerChar(text[i])]

RECURSIVE SkipNonSpace(_)
SkipNonSpace(s) ==
  IF s = <<>> \/ IsSpace(Head(s)) THEN s ELSE SkipNonSpace(Tail(s))

RECURSIVE SkipWord(_)
SkipWord(s) ==
  IF s = <<>> \/ ~IsWord(Head(s)) THEN s ELSE SkipWord(Tail(s))

RECURSIVE SkipSpace(_)
SkipSpace(s) ==
  IF s = <<>> \/ ~IsSpace(Head(s)) THEN s ELSE SkipSpace(Tail(s))

\* prefix followed by \S+ matches at the start of s
PrefixThenNonSpace(prefix, s) ==
  /\ Len(s) > Len(prefix)
  /\ SubSeq(s, 1, Len(prefix)) = prefix
  /\ ~IsSpace(s[Len(prefix) + 1])

UrlAt(s) ==
  \/ PrefixThenNonSpace(<<"h", "t", "t", "p">>, s)
  \/ PrefixThenNonSpace(<<"w", "w", "w">>, s)
  \/ PrefixThenNonSpace(<<"h", "t", "t", "p", "s">>, s)

\* re.sub(r'http\S+|www\S+|https\S+', '', text): leftmost matches, each
\* running to the end of its run of non-space characters
RECURSIVE RemoveUrls(_)
RemoveUrls(s) ==
  IF s = <<>> THEN <<>>
  ELSE IF UrlAt(s) THEN RemoveUrls(SkipNonSpace(s))
  ELSE <<Head(s)>> \o RemoveUrls(Tail(s))

\* re.sub(r'@\w+', '', text)
RECURSIVE RemoveMentions(_)
RemoveMentions(s) ==
  IF s = <<>> THEN <<>>
  ELSE IF Head(s) = "@" /\ Len(s) > 1 /\ IsWord(s[2]) THEN RemoveMentions(SkipWord(Tail(s)))
  ELSE <<Head(s)>> \o RemoveMentions(Tail(s))

\* re.sub(r'\s+', ' ', text)
RECURSIVE CollapseSpace(_)
CollapseSpace(s) ==
  IF s = <<>> THEN <<>>
  ELSE IF IsSpace(Head(s)) THEN <<" ">> \o CollapseSpace(SkipSpace(s))
  ELSE <<Head(s)>> \o CollapseSpace(Tail(s))

RECURSIVE StripRight(_)
StripRight(s) ==
  IF s = <<>> \/ ~IsSpace(s[Len(s)]) THEN s ELSE StripRight(SubSeq(s, 1, Len(s) - 1))

Strip(s) == StripRight(SkipSpace(s))

preprocess_tweet(text) ==
  LET no_urls == RemoveUrls(text)
      no_mentions == RemoveMentions(no_urls)
      spaced == Strip(CollapseSpace(no_mentions))
  IN  Lower(spaced)

MaxLen == 5

Alphabet == {"h", "t", "p", "w", "W", "@", " ", "."}

Texts == UNION {[1..n -> Alphabet] : n \in 0..MaxLen}

InitPreprocess ==
  /\ InitCommon
  /\ env = None
  /\ request \in {[fn |-> "preprocess_tweet", arg |-> text] : text \in Texts}

CallPreprocess ==
  /\ pc = "call"
  /\ request.fn = "preprocess_tweet"
  /\ Return(preprocess_tweet(request.arg))

NextPreprocess == CallPreprocess

SpecPreprocess == InitPreprocess /\ [][NextPreprocess]_vars

(***************************************************************************)
(* C8: preprocess_tweet is idempotent: applying it to its own result       *)
(* gives that result again, for every input text.                          *)
(***************************************************************************)
C8_PreprocessIdempotent ==
  Returned("preprocess_tweet") => preprocess_tweet(ret) = ret

(***************************************************************************)
(* self.crypto_symbols, lines 108-113, and is_crypto_related, lines        *)
(* 140-147.  Keywords and texts are sequences of characters.               *)
(***************************************************************************)
crypto_symbols ==
  "BTC" :> {<<"b", "i", "t", "c", "o", "i", "n">>,
             <<"b", "t", "c">>,
             <<"$", "b", "t", "c">>,
             <<"#", "b", "i", "t", "c", "o", "i", "n">>,
             <<"#", "b", "t", "c">>} @@
  "ETH" :> {<<"e", "t", "h", "e", "r", "e", "u", "m">>,
             <<"e", "t", "h">>,
             <<"$", "e", "t", "h">>,
             <<"#", "e", "t", "h", "e", "r", "e", "u", "m">>,
             <<"#", "e", "t", "h">>} @@
  "USDC" :> {<<"u", "s", "d", "c">>,
             <<"$", "u", "s", "d", "c">>,
             <<"#", "u", "s", "d", "c">>,
             <<"u", "s", "d", " ", "c", "o", "i", "n">>} @@
  "USDT" :> {<<"u", "s", "d", "t">>,
             <<"$", "u", "s", "d", "t">>,
             <<"#", "u", "s", "d", "t">>,
             <<"t", "e", "t", "h", "e", "r">>}

Contains(text, keyword) ==
  \E i \in 0..(Len(text) - Len(keyword)) : SubSeq(text, i + 1, i + Len(keyword)) = keyword

is_crypto_related(text, symbol) ==
  LET text_lower == Lower(text)
      keywords == Get(crypto_symbols, symbol, {})
  IN  \E keyword \in keywords : Contains(text_lower, keyword)

(***************************************************************************)
(* Lists of tweets.  A list is kept run-length encoded: the sequence       *)
(* <<[tweet |-> t, count |-> n], ...>> stands for n >= 1 tweets equal to t *)
(* in every key but 'id', followed by the next run.  Every tweet has the   *)
(* keys 'id' and 'text'; the loops of the handlers read the other keys     *)
(* only, so they act on a run as on each of its tweets.                    *)
(***************************************************************************)
RECURSIVE Total(_)
Total(runs) == IF runs = <<>> THEN 0 ELSE Head(runs).count + Total(Tail(runs))

\* the first `limit` tweets of a list
RECURSIVE Take(_, _)
Take(runs, limit) ==
  IF runs = <<>> \/ limit <= 0 THEN <<>>
  ELSE IF Head(runs).count >= limit THEN <<[Head(runs) EXCEPT !.count = limit]>>
  ELSE <<Head(runs)>> \o Take(Tail(runs), limit - Head(runs).count)

Ok(value) == [exc |-> "", val |-> value]

Raise(error) == [exc |-> error, val |-> <<>>]

(***************************************************************************)
(* generate_mock_tweets, lines 218-272.  env.feed[symbol].random is the    *)
(* stream of draws of the random module during the call for symbol, one    *)
(* draw per tweet: the scores the lexicon scorer gives the template drawn, *)
(* the age of the tweet and its three counts; or the exception that        *)
(* leaves the generator.  The text of a mock tweet starts with the symbol. *)
(***************************************************************************)
SymbolChars ==
  "BTC" :> <<"B", "T", "C">> @@ "ETH" :> <<"E", "T", "H">> @@ "DOGE" :> <<"D", "O", "G", "E">>

MockTweet(symbol, draw, base_time) ==
  [text |-> SymbolChars[symbol] \o <<" ", "u", "p">>,
   created_at |-> [valid |-> TRUE, wall |-> base_time - draw.hours_ago, aware |-> FALSE],
   retweet_count |-> draw.retweet_count,
   like_count |-> draw.like_count,
   reply_count |-> draw.reply_count,
   vader |-> draw.vader]

generate_mock_tweets(symbol, count, e) ==
  IF e.feed[symbol].random.exc # "" THEN Raise(e.feed[symbol].random.exc)
  ELSE LET draws == Take(e.feed[symbol].random.val, count)
       IN  Ok([i \in 1..Len(draws) |->
                 [tweet |-> MockTweet(symbol, draws[i].tweet, e.now), count |-> draws[i].count]])

(***************************************************************************)
(* fetch_twitter_data, lines 178-216.  env.feed[symbol].search is what the *)
(* paginated search for symbol yields (as the dicts of lines 202-209) or   *)
(* the exception it raises; flatten(limit=max_results) cuts it to          *)
(* max_results tweets.                                                     *)
(***************************************************************************)
FetchUnlimited(symbol, max_results, e) ==
  IF ~e.twitter_client THEN generate_mock_tweets(symbol, max_results, e)
  ELSE IF e.feed[symbol].search.exc # "" THEN generate_mock_tweets(symbol, max_results, e)
  ELSE Ok(e.feed[symbol].search.val)

fetch_twitter_data(symbol, max_results, e) ==
  IF ~e.twitter_client THEN generate_mock_tweets(symbol, max_results, e)
  ELSE IF e.feed[symbol].search.exc # "" THEN generate_mock_tweets(symbol, max_results, e)
  ELSE Ok(Take(e.feed[symbol].search.val, max_results))

(***************************************************************************)
(* The time window, lines 308-319.  Time is counted in hours from          *)
(* datetime.min; the model's clock is near that origin, so that a small    *)
(* hours_back already takes datetime.now() - timedelta(hours=hours_back)   *)
(* below datetime.min, where the subtraction raises OverflowError.         *)
(* created_at is [valid, wall, aware]: valid says fromisoformat parses the *)
(* string, wall is its date and time as written, aware says it carries a   *)
(* UTC offset (+00:00, the form of the search API).  replace(tzinfo=None)  *)
(* keeps wall and drops the offset.                                        *)
(***************************************************************************)
DatetimeMin == 0

CutoffTime(now, hours_back) ==
  IF now - hours_back < DatetimeMin THEN Raise("OverflowError: date value out of range")
  ELSE Ok(now - hours_back)

KeepRecent(tweet, cutoff_time) ==
  IF "created_at" \notin DOMAIN tweet THEN TRUE
  ELSE IF ~tweet.created_at.valid THEN TRUE
  ELSE tweet.created_at.wall > cutoff_time

FilterRecent(runs, cutoff_time) ==
  SelectSeq(runs, LAMBDA run : KeepRecent(run.tweet, cutoff_time))

(***************************************************************************)
(* analyze_text_sentiment, lines 149-176.  tweet.vader is what             *)
(* sia.polarity_scores does on the tweet's preprocessed text: it raises,   *)
(* or gives compound, pos, neg and neu, here in hundredths.                *)
(***************************************************************************)
analyze_text_sentiment(text, vader) ==
  IF vader.raises
  THEN [compound |-> Zero, positive |-> Zero, negative |-> Zero, neutral |-> One,
        processed_text |-> text]
  ELSE [compound |-> Rat(vader.compound, 100), positive |-> Rat(vader.pos, 100),
        negative |-> Rat(vader.neg, 100), neutral |-> Rat(vader.neu, 100),
        processed_text |-> preprocess_tweet(text)]

(***************************************************************************)
(* The scoring loop, lines 325-342: one entry of sentiment_scores per      *)
(* recent tweet that is_crypto_related accepts ('tweet_id' is left out).   *)
(***************************************************************************)
ScoreEntry(run) ==
  LET sentiment == analyze_text_sentiment(run.tweet.text, run.tweet.vader)
      engagement_weight == calculate_engagement_weight(run.tweet)
  IN  [compound |-> sentiment.compound,
       positive |-> sentiment.positive,
       negative |-> sentiment.negative,
       neutral |-> sentiment.neutral,
       weight |-> engagement_weight,
       count |-> run.count]

ScoreAllRecent(recent, symbol) == [i \in 1..Len(recent) |-> ScoreEntry(recent[i])]

ScoreRelevant(recent, symbol) ==
  LET related == SelectSeq(recent, LAMBDA run : is_crypto_related(run.tweet.text, symbol))
  IN  [i \in 1..Len(related) |-> ScoreEntry(related[i])]

RatAdd(a, b) == Rat(a[1] * b[2] + b[1] * a[2], a[2] * b[2])

RatScale(n, a) == Rat(n * a[1], a[2])

RatDiv(a, b) == Rat(a[1] * b[2], a[2] * b[1])

\* total_engagement_weight, lines 327 and 342
RECURSIVE TotalWeight(_)
TotalWeight(scores) ==
  IF scores = <<>> THEN Zero
  ELSE RatAdd(RatScale(Head(scores).count, Head(scores).weight), TotalWeight(Tail(scores)))

\* sum(s[key] * s['weight'] for s in sentiment_scores), lines 349-352
RECURSIVE WeightedSum(_, _)
WeightedSum(scores, key) ==
  IF scores = <<>> THEN Zero
  ELSE RatAdd(RatScale(Head(scores).count, RatMul(Head(scores)[key], Head(scores).weight)),
              WeightedSum(Tail(scores), key))

MeanOverCount(scores, key) ==
  RatDiv(WeightedSum(scores, key), Rat(Total(scores), 1))

WeightedAverage(scores, key) ==
  RatDiv(WeightedSum(scores, key), TotalWeight(scores))

(***************************************************************************)
(* calculate_confidence, lines 416-438, for compounds in hundredths.       *)
(* With n = len(compounds), S their sum, Q the sum of their squares and    *)
(* V = n*Q - S*S, the standard deviation is sqrt(V) / (100 * n) and        *)
(*   1000 * confidence = round(700 * max(0, 1 - 2*std_dev) + min(300, 3*n))*)
(* which is min(300, 3*n) + 700 - j for the least j in 0..700 with         *)
(* ((2*j + 1) * n)^2 >= 784 * V, or j = 700 if there is none.  The two     *)
(* sides exceed 32 bits and are compared as three digits to base 10^4.     *)
(* An exact half rounds up here; Python rounds the binary double.          *)
(***************************************************************************)
Base == 10000

\* the digits of a * a, for 0 <= a < Base * Base
SquareDigits(a) ==
  LET a1 == a \div Base
      a0 == a % Base
      t0 == a0 * a0
      t1 == 2 * a1 * a0 + (t0 \div Base)
  IN  <<a1 * a1 + (t1 \div Base), t1 % Base, t0 % Base>>

\* the digits of k * v, for 0 <= k < Base and 0 <= v < Base * Base * Base
ScaleDigits(k, v) ==
  LET v2 == v \div (Base * Base)
      v1 == (v \div Base) % Base
      v0 == v % Base
      t0 == k * v0
      t1 == k * v1 + (t0 \div Base)
  IN  <<k * v2 + (t1 \div Base), t1 % Base, t0 % Base>>

DigitsGeq(x, y) ==
  \/ x[1] > y[1]
  \/ x[1] = y[1] /\ x[2] > y[2]
  \/ x[1] = y[1] /\ x[2] = y[2] /\ x[3] >= y[3]

RECURSIVE SumCompounds(_)
SumCompounds(scores) ==
  IF scores = <<>> THEN 0
  ELSE Head(scores).count * ((Head(scores).compound[1] * 100) \div Head(scores).compound[2])
       + SumCompounds(Tail(scores))

RECURSIVE SumSquares(_)
SumSquares(scores) ==
  IF scores = <<>> THEN 0
  ELSE LET c == (Head(scores).compound[1] * 100) \div Head(scores).compound[2]
       IN  Head(scores).count * c * c + SumSquares(Tail(scores))

\* the least j in lo..hi with ((2*j + 1) * n)^2 >= 784 * V, or hi
RECURSIVE LeastRounding(_, _, _, _)
LeastRounding(lo, hi, n, V) ==
  IF lo >= hi THEN hi
  ELSE LET mid == (lo + hi) \div 2
       IN  IF DigitsGeq(SquareDigits((2 * mid + 1) * n), ScaleDigits(784, V))
           THEN LeastRounding(lo, mid, n, V)
           ELSE LeastRounding(mid + 1, hi, n, V)

calculate_confidence(scores, tweet_count) ==
  IF scores = <<>> THEN Zero
  ELSE LET n == Total(scores)
           S == SumCompounds(scores)
           V == n * SumSquares(scores) - S * S
           consistency == 700 - LeastRounding(0, 700, n, V)
           volume == IF 3 * tweet_count < 300 THEN 3 * tweet_count ELSE 300
       IN  Rat(consistency + volume, 1000)

(***************************************************************************)
(* get_neutral_sentiment_result, lines 440-465                             *)
(***************************************************************************)
Thresholds ==
  [buy_threshold |-> BUY_THRESHOLD, sell_threshold |-> SELL_THRESHOLD,
   neutral_zone |-> NEUTRAL_ZONE]

get_neutral_sentiment_result(symbol, error, e) ==
  [symbol |-> symbol,
   timestamp |-> e.now,
   sentiment_scores |-> [compound |-> Zero, adjusted_compound |-> Zero, positive |-> Zero,
                         negative |-> Zero, neutral |-> One],
   trading_signal |-> "NEUTRAL",
   confidence |-> Zero,
   tweet_count |-> 0,
   volume_multiplier |-> One,
   thresholds |-> Thresholds,
   raw_tweets_analyzed |-> 0,
   error |-> error]

(***************************************************************************)
(* analyze_symbol_sentiment, lines 295-392.  The value is the call's       *)
(* outcome ret (exc is the exception that leaves the call, "" if none, val *)
(* the dict returned) with the locals tweets, recent_tweets and            *)
(* sentiment_scores as the call leaves them (<<>> where it did not get to  *)
(* them).                                                                  *)
(***************************************************************************)
Outcome(fetched, recent, scores, outcome) ==
  [tweets |-> fetched, recent_tweets |-> recent, sentiment_scores |-> scores, ret |-> outcome]

\* lines 348-388
ResultOf(symbol, scores, e, weighted_compound, adjusted_compound, classified) ==
  LET tweet_count == Total(scores)
  IN  [symbol |-> symbol,
       timestamp |-> e.now,
       sentiment_scores |-> [compound |-> weighted_compound,
                             adjusted_compound |-> adjusted_compound,
                             positive |-> WeightedAverage(scores, "positive"),
                             negative |-> WeightedAverage(scores, "negative"),
                             neutral |-> WeightedAverage(scores, "neutral")],
       trading_signal |-> generate_trading_signal(classified),
       confidence |-> calculate_confidence(scores, tweet_count),
       tweet_count |-> tweet_count,
       volume_multiplier |-> get_volume_multiplier(tweet_count),
       thresholds |-> Thresholds,
       raw_tweets_analyzed |-> Total(scores)]

FullResultSignalFromRaw(symbol, scores, e) ==
  LET weighted_compound == WeightedAverage(scores, "compound")
      adjusted_compound == RatMul(weighted_compound, get_volume_multiplier(Total(scores)))
  IN  ResultOf(symbol, scores, e, weighted_compound, adjusted_compound, weighted_compound)

FullResult(symbol, scores, e) ==
  LET weighted_compound == WeightedAverage(scores, "compound")
      adjusted_compound == RatMul(weighted_compound, get_volume_multiplier(Total(scores)))
  IN  ResultOf(symbol, scores, e, weighted_compound, adjusted_compound, adjusted_compound)

Propagate(symbol, error, e) == Raise(error)

\* the handler of lines 390-392
OnAnalysisError(symbol, error, e) == Ok(get_neutral_sentiment_result(symbol, error, e))

analyze_symbol_sentiment(symbol, hours_back, e) ==
  LET fetched == fetch_twitter_data(symbol, 200, e)
  IN  IF fetched.exc # ""
      THEN Outcome(<<>>, <<>>, <<>>, OnAnalysisError(symbol, fetched.exc, e))
      ELSE IF fetched.val = <<>>
      THEN Outcome(<<>>, <<>>, <<>>, Ok(get_neutral_sentiment_result(symbol, None, e)))
      ELSE
        LET cutoff_time == CutoffTime(e.now, hours_back)
        IN  IF cutoff_time.exc # ""
            THEN Outcome(fetched.val, <<>>, <<>>, OnAnalysisError(symbol, cutoff_time.exc, e))
            ELSE
              LET recent == FilterRecent(fetched.val, cutoff_time.val)
              IN  IF recent = <<>>
                  THEN Outcome(fetched.val, recent, <<>>,
                               Ok(get_neutral_sentiment_result(symbol, None, e)))
                  ELSE
                    LET scores == ScoreRelevant(recent, symbol)
                    IN  IF scores = <<>>
                        THEN Outcome(fetched.val, recent, scores,
                                     Ok(get_neutral_sentiment_result(symbol, None, e)))
                        ELSE Outcome(fetched.val, recent, scores,
                                     Ok(FullResult(symbol, scores, e)))

(***************************************************************************)
(* One call of analyze_symbol_sentiment.  The request and the environment  *)
(* of the call are drawn at the start: the symbol and hours_back, the      *)
(* local clock, the host's offset from UTC in hours, whether a Twitter     *)
(* client was built (lines 91-105), what the search yields and what the    *)
(* random module draws.                                                    *)
(***************************************************************************)
ClockNow == 3

MaxRuns == 2

RunCounts == {1, 50, 150}

HoursBackValues == {1, 2, ClockNow + 1}

Symbols == {"BTC", "DOGE"}

HostOffsets == {0, 1}

TextBTC == <<"B", "T", "C", " ", "u", "p">>

TextSubtc == <<"s", "u", "b", "t", "c">>

TextGm == <<"g", "m">>

Vader(compound, pos, neg, neu) ==
  [raises |-> FALSE, compound |-> compound, pos |-> pos, neg |-> neg, neu |-> neu]

VaderRaises == [raises |-> TRUE, compound |-> 0, pos |-> 0, neg |-> 0, neu |-> 0]

Stamp(wall, aware) == [valid |-> TRUE, wall |-> wall, aware |-> aware]

BadStamp == [valid |-> FALSE, wall |-> 0, aware |-> FALSE]

SampleTweets(now) ==
  { [text |-> TextBTC, created_at |-> Stamp(now, FALSE), vader |-> Vader(8, 20, 0, 80)],
    [text |-> TextSubtc, created_at |-> Stamp(now, FALSE), retweet_count |-> 10,
     like_count |-> 10, reply_count |-> 5, vader |-> Vader(10, 30, 10, 60)],
    [text |-> TextBTC, created_at |-> Stamp(now, TRUE), retweet_count |-> 0,
     like_count |-> 0, reply_count |-> 0, vader |-> Vader(0, 0, 0, 100)],
    [text |-> TextBTC, created_at |-> Stamp(now - 1, TRUE), retweet_count |-> 1,
     like_count |-> 0, reply_count |-> 0, vader |-> Vader(5, 10, 0, 90)],
    [text |-> TextBTC, retweet_count |-> 3, like_count |-> 1, reply_count |-> 0,
     vader |-> Vader(-50, 0, 40, 60)],
    [text |-> TextBTC, created_at |-> BadStamp, like_count |-> 9, vader |-> VaderRaises],
    [text |-> TextGm, created_at |-> Stamp(now, TRUE), retweet_count |-> 0,
     like_count |-> 49, reply_count |-> 0, vader |-> Vader(8, 20, 0, 80)],
    [text |-> TextBTC, created_at |-> Stamp(now - 2, FALSE), retweet_count |-> 0,
     like_count |-> 2, reply_count |-> 0, vader |-> Vader(8, 20, 0, 80)] }

MockDraws ==
  { [hours_ago |-> 0, retweet_count |-> 0, like_count |-> 0, reply_count |-> 0,
     vader |-> Vader(8, 20, 0, 80)],
    [hours_ago |-> 1, retweet_count |-> 50, like_count |-> 200, reply_count |-> 20,
     vader |-> Vader(-50, 0, 40, 60)],
    [hours_ago |-> 0, retweet_count |-> 1, like_count |-> 2, reply_count |-> 0,
     vader |-> Vader(0, 0, 0, 100)] }

RunLists(kinds) ==
  UNION {[1..n -> [tweet : kinds, count : RunCounts]] : n \in 0..MaxRuns}

\* the random module never runs dry: a stream holds the 200 draws a call asks for
RandomStreams == {stream \in RunLists(MockDraws) : Total(stream) >= 200}

LiveFeeds(timelines) == {[search |-> Ok(timeline), random |-> Ok(<<>>)] : timeline \in timelines}

MockFeeds(streams) ==
  {[search |-> Raise("TweepyException"), random |-> r] :
     r \in {Ok(stream) : stream \in streams} \cup {Raise("RuntimeError")}}

\* with a client every symbol is searched, and the search may fail; without
\* one every symbol gets mock tweets and the search is never consulted
Environments(now, offsets, symbols, live, mock) ==
  {[now |-> now, utcoffset |-> offset, twitter_client |-> TRUE, feed |-> feed] :
     offset \in offsets, feed \in [symbols -> live \cup mock]}
  \cup {[now |-> now, utcoffset |-> offset, twitter_client |-> FALSE, feed |-> feed] :
          offset \in offsets, feed \in [symbols -> mock]}

Init ==
  /\ InitCommon
  /\ request \in [fn : {"analyze_symbol_sentiment"}, symbol : Symbols,
                  hours_back : HoursBackValues]
  /\ env \in Environments(ClockNow, HostOffsets, {request.symbol},
                          LiveFeeds(RunLists(SampleTweets(ClockNow))),
                          MockFeeds(RandomStreams))

AnalyzeSymbol ==
  /\ pc = "call"
  /\ request.fn = "analyze_symbol_sentiment"
  /\ LET call == analyze_symbol_sentiment(request.symbol, request.hours_back, env)
     IN  /\ tweets' = call.tweets
         /\ recent_tweets' = call.recent_tweets
         /\ sentiment_scores' = call.sentiment_scores
         /\ ret' = call.ret
  /\ pc' = "done"
  /\ UNCHANGED <<request, env, results, pending>>

Next == AnalyzeSymbol

Spec == Init /\ [][Next]_vars

Analyzed == pc = "done" /\ request.fn = "analyze_symbol_sentiment"

Relevant(runs, symbol) ==
  {i \in 1..Len(runs) : is_crypto_related(runs[i].tweet.text, symbol)}

ZeroData(result) ==
  /\ result.sentiment_scores.compound = <<0, 1>>
  /\ result.sentiment_scores.adjusted_compound = <<0, 1>>
  /\ result.sentiment_scores.positive = <<0, 1>>
  /\ result.sentiment_scores.negative = <<0, 1>>
  /\ result.sentiment_scores.neutral = <<1, 1>>
  /\ result.trading_signal = "NEUTRAL"
  /\ result.confidence = <<0, 1>>
  /\ result.tweet_count = 0

(***************************************************************************)
(* C1: the result of analyze_symbol_sentiment has tweet_count 0 exactly    *)
(* when no fetched tweet passed both the time-window filter and the        *)
(* relevance filter, and then its scores are compound 0, adjusted 0,       *)
(* positive 0, negative 0, neutral 1, its signal NEUTRAL and its           *)
(* confidence 0.                                                           *)
(***************************************************************************)
C1_ZeroCount ==
  Analyzed =>
    /\ ret.exc = ""
    /\ (ret.val.tweet_count = 0) <=> (Relevant(recent_tweets, request.symbol) = {})
    /\ ret.val.tweet_count = 0 => ZeroData(ret.val)

C1_Witness ==
  /\ Analyzed
  /\ recent_tweets # <<>>
  /\ Relevant(recent_tweets, request.symbol) = {}
  /\ ret.val.tweet_count = 0
  /\ ret.val.trading_signal = "NEUTRAL"

(***************************************************************************)
(* C6: analyze_symbol_sentiment never lets an exception out.  When the     *)
(* fetched list is empty, when no tweet is inside the time window, when no *)
(* tweet inside it is relevant, or when a step raises, it returns the      *)
(* zero-data NEUTRAL result with confidence 0 and tweet_count 0, and when  *)
(* a step raised the error field is the error's text.                      *)
(***************************************************************************)
UsesMock == ~env.twitter_client \/ env.feed[request.symbol].search.exc # ""

FetchRaises == UsesMock /\ env.feed[request.symbol].random.exc # ""

FetchedEmpty == ~UsesMock /\ env.feed[request.symbol].search.val = <<>>

CutoffRaises == ~FetchRaises /\ ~FetchedEmpty /\ request.hours_back > env.now

C6_NeverRaises ==
  Analyzed =>
    /\ ret.exc = ""
    /\ FetchRaises =>
         ZeroData(ret.val) /\ ret.val.error = env.feed[request.symbol].random.exc
    /\ CutoffRaises =>
         ZeroData(ret.val) /\ ret.val.error = "OverflowError: date value out of range"
    /\ (FetchedEmpty \/ (~FetchRaises /\ ~CutoffRaises /\ recent_tweets = <<>>)
          \/ (~FetchRaises /\ ~CutoffRaises /\ Relevant(recent_tweets, request.symbol) = {})) =>
         ZeroData(ret.val) /\ ret.val.error = "None"

C6_Witness ==
  /\ Analyzed
  /\ tweets # <<>>
  /\ CutoffRaises
  /\ ret.exc = ""
  /\ ret.val.error = "OverflowError: date value out of range"
  /\ ret.val.tweet_count = 0

(***************************************************************************)
(* C9: the time-window filter keeps every tweet whose created_at is        *)
(* missing or cannot be parsed, and keeps a tweet with a parseable         *)
(* timestamp exactly when that time is strictly later than the cutoff,     *)
(* now - hours_back.  A timestamp with a UTC offset names the time wall    *)
(* on the UTC clock; one without names wall on the host's clock, as the    *)
(* cutoff does.                                                            *)
(***************************************************************************)
Unparseable(tweet) == "created_at" \notin DOMAIN tweet \/ ~tweet.created_at.valid

UtcTime(tweet) ==
  IF tweet.created_at.aware THEN tweet.created_at.wall
  ELSE tweet.created_at.wall - env.utcoffset

FilterRan == Analyzed /\ tweets # <<>> /\ request.hours_back <= env.now

Retained(run) == \E j \in 1..Len(recent_tweets) : recent_tweets[j] = run

C9_TimeWindow ==
  FilterRan =>
    \A i \in 1..Len(tweets) :
      Retained(tweets[i]) <=>
        \/ Unparseable(tweets[i].tweet)
        \/ UtcTime(tweets[i].tweet) > (env.now - env.utcoffset) - request.hours_back

\* what the code does: every timestamp is read on the host's clock
C9_WallClockWindow ==
  FilterRan =>
    \A i \in 1..Len(tweets) :
      Retained(tweets[i]) <=>
        \/ Unparseable(tweets[i].tweet)
        \/ tweets[i].tweet.created_at.wall > env.now - request.hours_back

(***************************************************************************)
(* C10: for a non-empty sample set the result's compound is                *)
(* sum(compound_i * weight_i) / sum(weight_i) over exactly the tweets that *)
(* passed the time-window and relevance filters, and adjusted_compound is  *)
(* that times get_volume_multiplier of their number; so n tweets of one    *)
(* compound c give compound c: 150 at 0.08 give 0.08 and BUY, 50 at 0.10   *)
(* give adjusted 0.05 and NEUTRAL.                                         *)
(***************************************************************************)
Hundredths(tweet) == IF tweet.vader.raises THEN 0 ELSE tweet.vader.compound

Tenths(tweet) ==
  LET w == calculate_engagement_weight(tweet) IN (w[1] * 10) \div w[2]

RECURSIVE SumOver(_, _, _)
SumOver(runs, indices, weighted) ==
  IF indices = {} THEN 0
  ELSE LET i == CHOOSE k \in indices : TRUE
           t == runs[i].tweet
           term == IF weighted THEN runs[i].count * Hundredths(t) * Tenths(t)
                   ELSE runs[i].count * Tenths(t)
       IN  term + SumOver(runs, indices \ {i}, weighted)

RECURSIVE CountOver(_, _)
CountOver(runs, indices) ==
  IF indices = {} THEN 0
  ELSE LET i == CHOOSE k \in indices : TRUE
       IN  runs[i].count + CountOver(runs, indices \ {i})

Passed == Relevant(recent_tweets, request.symbol)

AllAt(c) == \A i \in Passed : Hundredths(recent_tweets[i].tweet) = c

C10_WeightedMean ==
  (Analyzed /\ ret.val.tweet_count > 0) =>
    LET n == CountOver(recent_tweets, Passed)
        cw == SumOver(recent_tweets, Passed, TRUE)
        w == SumOver(recent_tweets, Passed, FALSE)
        twice == IF n > 500 THEN 3 ELSE IF n < 100 THEN 1 ELSE 2
        scores == ret.val.sentiment_scores
    IN  /\ ret.val.tweet_count = n
        /\ w > 0
        /\ scores.compound = Rat(cw, 100 * w)
        /\ scores.adjusted_compound = Rat(cw * twice, 200 * w)
        /\ \A i \in Passed :
             LET c == Hundredths(recent_tweets[i].tweet)
             IN  AllAt(c) => scores.compound = Rat(c, 100)
        /\ (n = 150 /\ AllAt(8)) =>
             scores.compound = <<2, 25>> /\ ret.val.trading_signal = "BUY"
        /\ (n = 50 /\ AllAt(10)) =>
             scores.adjusted_compound = <<1, 20>> /\ ret.val.trading_signal = "NEUTRAL"

C10_Witness ==
  /\ Analyzed
  /\ ret.val.tweet_count = 150
  /\ AllAt(8)
  /\ Len(tweets) > 1
  /\ ret.val.sentiment_scores.compound = <<2, 25>>
  /\ ret.val.trading_signal = "BUY"

C10_WitnessFifty ==
  /\ Analyzed
  /\ ret.val.tweet_count = 50
  /\ AllAt(10)
  /\ ret.val.sentiment_scores.adjusted_compound = <<1, 20>>
  /\ ret.val.trading_signal = "NEUTRAL"

(***************************************************************************)
(* C11: every result of analyze_symbol_sentiment has a sample count of at  *)
(* most 200: the source is asked for 200 tweets, and neither the search    *)
(* nor the mock generator hands over more than it was asked for, however   *)
(* many the search has to offer.  So the count never exceeds               *)
(* HIGH_VOLUME_THRESHOLD, and volume_multiplier is 0.5 or 1.0, never 1.5.  *)
(***************************************************************************)
Offered ==
  IF env.twitter_client /\ env.feed[request.symbol].search.exc = ""
  THEN Total(env.feed[request.symbol].search.val)
  ELSE IF env.feed[request.symbol].random.exc = ""
  THEN Total(env.feed[request.symbol].random.val)
  ELSE 0

C11_SampleCap ==
  Analyzed /\ ret.exc = "" =>
    /\ Total(tweets) <= 200
    /\ Total(recent_tweets) <= Total(tweets)
    /\ Total(sentiment_scores) <= Total(recent_tweets)
    /\ ret.val.tweet_count = Total(sentiment_scores)
    /\ ret.val.tweet_count <= 200
    /\ ret.val.tweet_count <= HIGH_VOLUME_THRESHOLD
    /\ ret.val.volume_multiplier \in {LOW_VOLUME_MULTIPLIER, One}
    /\ ret.val.volume_multiplier # HIGH_VOLUME_MULTIPLIER

C11_Witness ==
  /\ Analyzed
  /\ env.twitter_client
  /\ Offered > 200
  /\ Total(tweets) = 200
  /\ ret.val.tweet_count = 200
  /\ ret.val.volume_multiplier = One

C11_WitnessMock ==
  /\ Analyzed
  /\ ~env.twitter_client
  /\ Offered > 200
  /\ Total(tweets) = 200
  /\ ret.val.tweet_count = 200
  /\ ret.val.volume_multiplier = One

(***************************************************************************)
(* analyze_multiple_symbols, lines 467-484: one action for each turn of    *)
(* the loop over symbols and one for the return.  pending holds the        *)
(* symbols the loop has still to visit.  Each symbol is analysed with the  *)
(* default hours_back of line 295.                                         *)
(***************************************************************************)
MaxSymbols == 2

BatchSymbols == {"BTC", "ETH", "DOGE"}

TextBoth == <<"b", "t", "c", " ", "e", "t", "h">>

BatchRuns(now) ==
  { [tweet |-> [text |-> TextBoth, created_at |-> Stamp(now, FALSE),
                vader |-> Vader(8, 20, 0, 80)], count |-> 150],
    [tweet |-> [text |-> TextBoth, created_at |-> Stamp(now, FALSE), retweet_count |-> 10,
                like_count |-> 10, reply_count |-> 5, vader |-> Vader(10, 30, 10, 60)],
     count |-> 50],
    [tweet |-> [text |-> TextBoth, created_at |-> Stamp(now, TRUE), retweet_count |-> 0,
                like_count |-> 0, reply_count |-> 0, vader |-> Vader(0, 0, 0, 100)],
     count |-> 1],
    [tweet |-> [text |-> TextBoth, created_at |-> Stamp(now, FALSE), retweet_count |-> 1,
                like_count |-> 0, reply_count |-> 0, vader |-> Vader(5, 10, 0, 90)],
     count |-> 150],
    [tweet |-> [text |-> TextGm, created_at |-> Stamp(now, FALSE), retweet_count |-> 0,
                like_count |-> 0, reply_count |-> 0, vader |-> Vader(8, 20, 0, 80)],
     count |-> 1] }

BatchTimelines == {<<>>} \cup {<<run>> : run \in BatchRuns(ClockNow)}

BatchStreams ==
  {<<[tweet |-> d, count |-> 150], [tweet |-> d, count |-> 150]>> : d \in MockDraws}

Range(seq) == {seq[i] : i \in DOMAIN seq}

DefaultHoursBack == 1

InitBatch ==
  /\ pc = "loop"
  /\ request \in {[fn |-> "analyze_multiple_symbols", symbols |-> symbols] :
                    symbols \in UNION {[1..n -> BatchSymbols] : n \in 0..MaxSymbols}}
  /\ env \in Environments(ClockNow, {0}, Range(request.symbols),
                          LiveFeeds(BatchTimelines), MockFeeds(BatchStreams))
  /\ tweets = <<>>
  /\ recent_tweets = <<>>
  /\ sentiment_scores = <<>>
  /\ ret = None
  /\ results = <<>>
  /\ pending = request.symbols

HasError(entry) == "error" \in DOMAIN entry /\ entry.error # None

StopOnError(rest, entry) == IF HasError(entry) THEN <<>> ELSE Tail(rest)

\* the for statement of line 473 goes on to the next symbol whatever was stored
Remaining(rest, entry) == Tail(rest)

\* results[symbol] = ..., lines 475 and 478
Store(dict, key, value) ==
  [k \in DOMAIN dict \cup {key} |-> IF k = key THEN value ELSE dict[k]]

AnalyzeNext ==
  /\ pc = "loop"
  /\ pending # <<>>
  /\ LET symbol == Head(pending)
         call == analyze_symbol_sentiment(symbol, DefaultHoursBack, env)
         entry == IF call.ret.exc = "" THEN call.ret.val
                  ELSE get_neutral_sentiment_result(symbol, call.ret.exc, env)
     IN  /\ results' = Store(results, symbol, entry)
         /\ pending' = Remaining(pending, entry)
         /\ tweets' = call.tweets
         /\ recent_tweets' = call.recent_tweets
         /\ sentiment_scores' = call.sentiment_scores
  /\ UNCHANGED <<pc, request, env, ret>>

ReturnBatch ==
  /\ pc = "loop"
  /\ pending = <<>>
  /\ ret' = Ok([timestamp |-> env.now,
                symbols_analyzed |-> Len(request.symbols),
                results |-> results])
  /\ pc' = "done"
  /\ UNCHANGED <<request, env, tweets, recent_tweets, sentiment_scores, results, pending>>

NextBatch == AnalyzeNext \/ ReturnBatch

SpecBatch == InitBatch /\ [][NextBatch]_vars

(***************************************************************************)
(* C7: analyze_multiple_symbols visits the requested symbols in order and  *)
(* to the end of the list.  A failure for one symbol does not end the      *)
(* batch: that symbol's entry is the zero-data result with the error, the  *)
(* entry of every symbol is what analysing that symbol alone gives, and    *)
(* the returned results have an entry for every requested symbol.          *)
(***************************************************************************)
Visited == Len(request.symbols) - Len(pending)

Alone(symbol) == analyze_symbol_sentiment(symbol, DefaultHoursBack, env).ret.val

MockFails(symbol) ==
  /\ ~env.twitter_client \/ env.feed[symbol].search.exc # ""
  /\ env.feed[symbol].random.exc # ""

C7_BatchIsolation ==
  /\ Visited >= 0
  /\ pending = SubSeq(request.symbols, Visited + 1, Len(request.symbols))
  /\ DOMAIN results = {request.symbols[i] : i \in 1..Visited}
  /\ \A s \in DOMAIN results :
       /\ results[s] = Alone(s)
       /\ MockFails(s) =>
            ZeroData(results[s]) /\ results[s].error = env.feed[s].random.exc
  /\ pc = "done" =>
       /\ pending = <<>>
       /\ ret.exc = ""
       /\ DOMAIN ret.val.results = Range(request.symbols)
       /\ ret.val.results = results
       /\ ret.val.symbols_analyzed = Len(request.symbols)

C7_Witness ==
  /\ pc = "done"
  /\ Len(request.symbols) = 2
  /\ MockFails(request.symbols[1])
  /\ request.symbols[1] # request.symbols[2]
  /\ ret.val.results[request.symbols[1]].error = "RuntimeError"
  /\ ret.val.results[request.symbols[2]].tweet_count > 0

(***************************************************************************)
(* C2: the trading signal is a function of the adjusted compound score     *)
(* only: any two results of analyze_symbol_sentiment, full or zero-data,   *)
(* with equal adjusted_compound have equal trading_signal.                 *)
(***************************************************************************)
C2_SignalFunctionOfAdjusted ==
  \A s1, s2 \in DOMAIN results :
    results[s1].sentiment_scores.adjusted_compound
      = results[s2].sentiment_scores.adjusted_compound
    => results[s1].trading_signal = results[s2].trading_signal

(***************************************************************************)
(* C2 as amended: any two full results (tweet_count > 0) with equal        *)
(* adjusted_compound have equal trading_signal, and so have any two        *)
(* zero-data results; a zero-data result has adjusted_compound 0 and       *)
(* NEUTRAL, a full result with adjusted_compound 0 has SELL.               *)
(***************************************************************************)
C2_SignalFunctionPerKind ==
  \A s1, s2 \in DOMAIN results :
    /\ (results[s1].tweet_count = 0) <=> (results[s2].tweet_count = 0)
    /\ results[s1].sentiment_scores.adjusted_compound
         = results[s2].sentiment_scores.adjusted_compound
    => /\ results[s1].trading_signal = results[s2].trading_signal
       /\ results[s1].trading_signal =
            IF results[s1].tweet_count = 0 THEN "NEUTRAL"
            ELSE generate_trading_signal(results[s1].sentiment_scores.adjusted_compound)

C2_Witness ==
  /\ pc = "done"
  /\ \E s1, s2 \in DOMAIN results :
       /\ s1 # s2
       /\ results[s1].tweet_count = 50
       /\ results[s2].tweet_count = 150
       /\ results[s1].sentiment_scores.compound # results[s2].sentiment_scores.compound
       /\ results[s1].sentiment_scores.adjusted_compound = <<1, 20>>
       /\ results[s2].sentiment_scores.adjusted_compound = <<1, 20>>
       /\ results[s1].trading_signal = "NEUTRAL"
       /\ results[s2].trading_signal = "NEUTRAL"

====
